---------------------------- MODULE Spec2Model ----------------------------
(***************************************************************************)
(* Payment dispatch engine of rinha-backend-2025-bun.                      *)
(*                                                                         *)
(* Two API replicas share a Redis store (C) and a Postgres ledger (L).     *)
(* POST /payments (createPayment) enqueues the payment and then tries an   *)
(* immediate delivery (processPaymentAsync); a drain loop per replica      *)
(* (processQueue) takes items from the main and the retry queue, delivers  *)
(* them (processPayment), commits to the ledger (createTransaction) and    *)
(* reschedules failures with exponential backoff (addToRetryQueue).        *)
(*                                                                         *)
(* Every await on Redis, Postgres or a processor is one step of the model. *)
(* Amounts are in cents, times in milliseconds.  A raw queue item (the     *)
(* JSON string) is modelled by the record it serialises: JSON.stringify    *)
(* and JSON.parse of these four numeric fields are injective and inverse.  *)
(***************************************************************************)
EXTENDS Integers, Sequences, FiniteSets

\* ------------------------------------------------------------------ bounds
MaxPosts == 2        \* POST /payments requests in one run
MaxFaults == 1       \* injected Redis / Postgres errors in one run
MaxRebuilds == 1     \* POST /rebuild-summary-cache requests in one run
MaxSched == 1        \* pending setTimeout(processQueue) timers per replica
MaxCrashes == 1      \* replica crashes in one run
MaxReads == 1        \* GET /payments-summary requests in one run
MaxPurges == 1       \* POST /purge-payments requests in one run
MaxLimit == 2        \* the limit of a getFromQueue call made on its own
Horizon == 5000      \* milliseconds of clock followed in a run
RetryHorizon == 1515000  \* the same, for a run through the whole retry schedule
HealthHorizon == 26000   \* the same, for a run of the health monitor
ClockStep == 1000        \* the clock of that run advances by at most this

\* ------------------------------------------------------ program constants
maxRetries == 10
BackoffCapSeconds == 300
BackoffBaseSeconds == 5
QueueLimit == 100
AttemptTimeout == 3000   \* attemptPayment aborts its POST after 3 s

\* The health monitor (its module is imported, its text is not among the
\* sources): the times its protocol states, in milliseconds.
TickInterval == 3000     \* a tick per replica
LeaseTtl == 4000         \* health_check_lock
ProbeDeadline == 4000    \* abort of the two probes
VerdictTtl == 15000      \* health_status

Replicas == {"api1", "api2"}
Procs == {"default", "fallback"}
FallbackFirst == <<"fallback", "default">>  \* (for mutation) the opposite order
ProcOrder == <<"default", "fallback">>
Ids == {1, 2}
Amounts == {25}
Reqs == 1..MaxPosts

\* JSON values a request body can carry in its two fields: a string (v = 0 is
\* the empty string), a number, or nothing (undefined).
IdValues ==
  {[t |-> "string", v |-> c] : c \in Ids \cup {0}}
    \cup {[t |-> "number", v |-> 1], [t |-> "undefined", v |-> 0]}

AmountValues ==
  {[t |-> "number", v |-> a] : a \in Amounts}
    \cup {[t |-> "string", v |-> 25], [t |-> "undefined", v |-> 0]}

Bodies == [correlationId : IdValues, amount : AmountValues]

VARIABLES
  now,          \* Date.now()
  queue,        \* payment_queue (list, head first)
  retryQ,       \* payment_retry_queue (sorted set; score = nextRetryAt)
  processing,   \* payment_processing (list, head first)
  queueItem,    \* ids with a queue_item:<id> key
  processed,    \* ids with a payment_processed:<id> key
  failed,       \* ids with a payment_failed:<id> key
  workerLock,   \* whether the worker_lock key exists
  ledger,       \* committed rows of table transactions
  counters,     \* summary:processor:<p> hashes
  req,          \* POST /payments handlers
  wrk,          \* processQueue invocation of each replica
  sched,        \* pending processQueue timers of each replica
  rebuild,      \* rebuildFromDatabase invocation
  posts,        \* POST /payments requests still to arrive
  faults,       \* store errors still to inject
  rebuilds,     \* rebuild requests still to make
  horizon,      \* the time the clock is followed up to
  stable,       \* the processor that is available from now on ("none" if none)
  attempts,     \* history: delivery attempts started per id
  accepted,     \* history: processor POSTs answered 2xx per id
  increments,   \* history: counter increments made per id
  highest,      \* history: highest retryCount put into the retry queue per id
  pushed,       \* history: items addToQueue pushed onto payment_queue per id
  summ,         \* GET /payments-summary handler
  purge,        \* POST /purge-payments handler
  crashes,      \* replica crashes still to happen
  healthLock,   \* health_check_lock: its holder and the time it expires at
  healthStatus, \* health_status: the cached verdict and the time it expires at
  monitor,      \* health ticker of each replica, with its local snapshot
  take,         \* a call of getFromQueue(limit) by each replica
  enqueued      \* history: the raw items in the order of their LPUSH

vars == <<now, queue, retryQ, processing, queueItem, processed, failed,
          workerLock, ledger, counters, req, wrk, sched, rebuild, posts,
          faults, rebuilds, horizon, stable, attempts, accepted, increments,
          highest, pushed, summ, purge, crashes, healthLock, healthStatus,
          monitor, take, enqueued>>

storeVars == <<queue, retryQ, processing, queueItem, processed, failed,
               workerLock, ledger, counters>>
histVars == <<attempts, accepted, increments, highest, pushed>>
healthVars == <<healthLock, healthStatus, monitor>>
batchVars == <<take, enqueued>>
adminVars == <<summ, purge, crashes, healthVars, batchVars>>
budgetVars == <<posts, rebuilds, horizon, stable>>

\* ----------------------------------------------------------------- helpers
QueueItem(cid, amt, rc, at) ==
  [correlationId |-> cid, amount |-> amt, retryCount |-> rc, nextRetryAt |-> at]

Row(cid, amt, p) == [correlation_id |-> cid, amount |-> amt, processor |-> p]

RECURSIVE Pow2(_)
Pow2(n) == IF n = 0 THEN 1 ELSE 2 * Pow2(n - 1)

Min2(a, b) == IF a <= b THEN a ELSE b

\* LREM that removes nothing.
LRemNone(list, x) == list

\* LREM key 1 element: removes the first occurrence from the head.
RECURSIVE LRem1(_, _)
LRem1(list, x) ==
  IF list = <<>> THEN <<>>
  ELSE IF Head(list) = x THEN Tail(list)
  ELSE <<Head(list)>> \o LRem1(Tail(list), x)

RECURSIVE Reverse(_)
Reverse(s) == IF s = <<>> THEN <<>> ELSE Reverse(Tail(s)) \o <<Head(s)>>

\* Order of a sorted set: by score, members of equal score by their string.
ItemBefore(x, y) ==
  \/ x.nextRetryAt < y.nextRetryAt
  \/ /\ x.nextRetryAt = y.nextRetryAt
     /\ \/ x.correlationId < y.correlationId
        \/ /\ x.correlationId = y.correlationId
           /\ \/ x.amount < y.amount
              \/ x.amount = y.amount /\ x.retryCount < y.retryCount

RECURSIVE ByScore(_)
ByScore(S) ==
  IF S = {} THEN <<>>
  ELSE LET m == CHOOSE x \in S : \A y \in S \ {x} : ItemBefore(x, y)
       IN <<m>> \o ByScore(S \ {m})

\* getHealthStatusSync(): the local snapshot, isFailing per processor.
Snapshots == [Procs -> BOOLEAN]

\* A processor that is available from now on is seen non-failing.
SeenSnapshots == {h \in Snapshots : stable # "none" => ~h[stable]}

\* What a processor POST can answer (response.ok).
Answers(p) == IF stable = p THEN {TRUE} ELSE BOOLEAN

\* Candidates that ignore the health snapshot.
TryAll(h) == ProcOrder

TryOrder(h) == SelectSeq(ProcOrder, LAMBDA p : ~h[p])

\* Outcomes of a store command: it runs, or (while faults remain) it throws.
Outcomes == IF faults > 0 THEN {"ok", "err"} ELSE {"ok"}

Spend(o) == faults' = IF o = "ok" THEN faults ELSE faults - 1

Bump(f, c) == [f EXCEPT ![c] = @ + 1]

HasRow(cid) == \E k \in DOMAIN ledger : ledger[k].correlation_id = cid

RowsOf(p) == {k \in DOMAIN ledger : ledger[k].processor = p}

RECURSIVE SumAmounts(_)
SumAmounts(K) ==
  IF K = {} THEN 0
  ELSE LET k == CHOOSE x \in K : TRUE
       IN ledger[k].amount + SumAmounts(K \ {k})

ZeroCounter == [total_requests |-> 0, total_amount |-> 0]


\* ------------------------------------- alternative definitions (for mutation)
\* No unique index: a concurrent INSERT of the same id does not wait.
NoPendingIds == {}

\* A retry budget that is never used up.
NeverExhausted(item) == FALSE

\* The delay computed from the retryCount after its increment.
BackoffAfterIncrement(retryCount) ==
  Min2(BackoffCapSeconds, Pow2(retryCount + 1) * BackoffBaseSeconds) * 1000

\* An INSERT that never returns a row (it always takes the conflict branch).
NeverInserts(cid) == FALSE

\* LMOVE ... LEFT LEFT: the element at the head is the one moved.
LeftEnd(list) == 1

\* A cached verdict that outlives its TTL by a tick interval.
LongVerdict(t) == t + VerdictTtl + TickInterval

\* A lease that lasts one tick interval only.
ShortLease(t) == t + TickInterval

\* A retry queue whose items never fall due.
NeverDue(t) == {}

\* A SET without NX: it answers OK whether or not the key exists.
SetAlwaysOk(cid) == TRUE

\* A handler without the validation of the payload.
NeverInvalid(body) == FALSE

\* ------------------------------------------------- store operations (pure)
\* INSERT ... ON CONFLICT (correlation_id) DO NOTHING RETURNING correlation_id:
\* a row is returned exactly when none exists for the id.
createTransactionInserts(cid) == ~HasRow(cid)

\* SET queue_item:<id> 1 NX EX 3600 answers OK exactly when the key is absent.
SetNxOk(cid) == cid \notin queueItem

\* MULTI { HINCRBY total_requests 1; HINCRBYFLOAT total_amount amount }.
incrementCounters(c, p, amount) ==
  [c EXCEPT ![p] = [total_requests |-> @.total_requests + 1,
                    total_amount |-> @.total_amount + amount]]

\* Math.min(300, Math.pow(2, retryCount) * 5) * 1000
Backoff(retryCount) ==
  Min2(BackoffCapSeconds, Pow2(retryCount) * BackoffBaseSeconds) * 1000

\* Whether addToRetryQueue gives the item up instead of rescheduling it.
Exhausted(item) == item.retryCount >= maxRetries

\* A reschedule that forgets to count the retry.
SameRetryCount(item, t) == [item EXCEPT !.nextRetryAt = t + Backoff(item.retryCount)]

\* The item addToRetryQueue puts into the retry queue at time t.
Rescheduled(item, t) ==
  [item EXCEPT !.retryCount = item.retryCount + 1,
               !.nextRetryAt = t + Backoff(item.retryCount)]

\* ZRANGEBYSCORE payment_retry_queue 0 t
DueItems(t) == {x \in retryQ : x.nextRetryAt <= t}

\* SQL aggregate of rebuildFromDatabase for one processor.
Aggregate(p) ==
  [total_requests |-> Cardinality(RowsOf(p)), total_amount |-> SumAmounts(RowsOf(p))]

\* The element markAsProcessed passes to LREM when it was given no rawItem.
NoRaw == QueueItem(0, 0, 0, 0)

\* ------------------------------------------- summary hashes as Redis text
\* The decimal digits of a natural number, and the number they denote.
RECURSIVE Digits(_)
Digits(n) == IF n < 10 THEN <<n>> ELSE Digits(n \div 10) \o <<n % 10>>

RECURSIVE ParseDigits(_)
ParseDigits(d) ==
  IF d = <<>> THEN 0
  ELSE 10 * ParseDigits(SubSeq(d, 1, Len(d) - 1)) + d[Len(d)]

RECURSIVE TrimZeros(_)
TrimZeros(d) ==
  IF d # <<>> /\ d[Len(d)] = 0 THEN TrimZeros(SubSeq(d, 1, Len(d) - 1)) ELSE d

\* The text of an amount of `cents` hundredths as HINCRBYFLOAT keeps it:
\* integer part, and fraction digits without trailing zeros.
AmountText(cents) ==
  [int |-> Digits(cents \div 100),
   frac |-> TrimZeros(<<(cents % 100) \div 10, cents % 10>>)]

\* (for mutation) parseInt in the place of parseFloat: the fraction is dropped.
ParseFloatAsInt(text) == ParseDigits(text.int) * 100

\* parseFloat of such a text, in hundredths.
ParseFloat(text) ==
  ParseDigits(text.int) * 100
    + (IF Len(text.frac) >= 1 THEN text.frac[1] * 10 ELSE 0)
    + (IF Len(text.frac) >= 2 THEN text.frac[2] ELSE 0)

\* The replies HGETALL summary:processor:<p> can give: the two fields as text,
\* or, for a hash that was cleared or never written, no field at all.
HGetAllReplies(p) ==
  {[present |-> TRUE, total_requests |-> Digits(counters[p].total_requests),
    total_amount |-> AmountText(counters[p].total_amount)]}
  \cup (IF counters[p] = ZeroCounter
        THEN {[present |-> FALSE, total_requests |-> <<>>,
               total_amount |-> AmountText(0)]}
        ELSE {})

\* RedisSummaryService.getSummary: one row per processor, zero-filled.
SummaryRow(data) ==
  IF ~data.present THEN ZeroCounter
  ELSE [total_requests |-> ParseDigits(data.total_requests),
        total_amount |-> ParseFloat(data.total_amount)]

\* ----------------------------------------------------------------- tasks
NewReq == [pc |-> "new", cid |-> 0, amount |-> 0, at |-> 0, try |-> <<>>,
           proc |-> "none", again |-> TRUE, status |-> 0, dup |-> FALSE,
           idT |-> "none", amtT |-> "none"]

NewWrk == [pc |-> "idle", mainSt |-> "done", retrySt |-> "done", t |-> 0,
           mi |-> <<>>, ri |-> <<>>, batch |-> <<>>, try |-> <<>>,
           proc |-> "none"]

NewRebuild == [pc |-> "idle", rows |-> {}, agg |-> [p \in Procs |-> ZeroCounter]]

\* seen: history, the counters as they were when each HGETALL ran.
NewSumm == [pc |-> "idle", left |-> 0, got |-> <<>>, seen |-> <<>>,
            how |-> "none", resp |-> [p \in Procs |-> ZeroCounter]]

\* t1, p1, f1: purgeTransactions, purgePendingPayments and flushAll of the
\* first Promise.all; t2, p2: those of the second one.
NewPurge == [pc |-> "idle", left |-> 0, t1 |-> "off", p1 |-> "off",
             f1 |-> "off", t2 |-> "off", p2 |-> "off", status |-> 0]

\* items: what the call has moved so far; ret: the array it returned.
NewTake == [pc |-> "idle", limit |-> 0, items |-> <<>>, ret |-> <<>>]

\* An initial snapshot that trusts both processors.
NoneFailing == [p \in Procs |-> FALSE]

\* The initial snapshot: both processors failing.
BothFailing == [p \in Procs |-> TRUE]

NoLease == [by |-> "none", exp |-> 0]

\* by: history, the replica that wrote the verdict.
NoVerdict == [set |-> FALSE, v |-> BothFailing, at |-> 0, exp |-> 0, by |-> "none"]

\* local: the snapshot; asOf, from: history, when the probes that produced it
\* answered, and whose they were; next: the time of the next tick; since:
\* when the running probes started (of a stopped ticker: when it stopped).
NewMonitor == [pc |-> "off", local |-> BothFailing, asOf |-> 0, next |-> 0,
               since |-> 0, from |-> "none"]

\* Ids whose INSERT is made but not yet committed (the row lock is held).
PendingIds ==
  {req[i].cid : i \in {j \in Reqs : req[j].pc = "commit"}}
  \cup {Head(wrk[r].batch).correlationId : r \in {q \in Replicas : wrk[q].pc = "commit"}}

\* The state after the replicas in `started` have called startPaymentWorker,
\* with the budgets of a run.
Boot(nPosts, nFaults, nRebuilds, until, avail, started, nCrashes, nReads, nPurges) ==
  /\ posts = nPosts
  /\ faults = nFaults
  /\ rebuilds = nRebuilds
  /\ horizon = until
  /\ now = 0
  /\ queue = <<>>
  /\ retryQ = {}
  /\ processing = <<>>
  /\ queueItem = {}
  /\ processed = {}
  /\ failed = {}
  /\ workerLock = FALSE
  /\ ledger = <<>>
  /\ counters = [p \in Procs |-> ZeroCounter]
  /\ req = [i \in Reqs |-> NewReq]
  /\ wrk = [r \in Replicas |-> NewWrk]
  /\ sched = [r \in Replicas |-> IF r \in started THEN 1 ELSE 0]
  /\ rebuild = NewRebuild
  /\ stable = avail
  /\ attempts = [c \in Ids |-> 0]
  /\ accepted = [c \in Ids |-> 0]
  /\ increments = [c \in Ids |-> 0]
  /\ highest = [c \in Ids |-> 0]
  /\ pushed = [c \in Ids |-> 0]
  /\ summ = [NewSumm EXCEPT !.left = nReads]
  /\ purge = [NewPurge EXCEPT !.left = nPurges]
  /\ crashes = nCrashes
  /\ healthLock = NoLease
  /\ healthStatus = NoVerdict
  /\ monitor = [r \in Replicas |-> NewMonitor]
  /\ take = [r \in Replicas |-> NewTake]
  /\ enqueued = <<>>

Start(nPosts, nFaults, nRebuilds, until, avail, started) ==
  Boot(nPosts, nFaults, nRebuilds, until, avail, started, 0, 0, 0)

Init == Start(MaxPosts, MaxFaults, MaxRebuilds, RetryHorizon, "none", Replicas)

\* ------------------------------------------------ intake: POST /payments
Done(r, st) ==
  [NewReq EXCEPT !.pc = "done", !.cid = r.cid, !.status = st, !.idT = r.idT,
                 !.amtT = r.amtT]

\* !x of JavaScript for the values of a body field.
Falsy(x) ==
  \/ x.t = "undefined"
  \/ x.t = "string" /\ x.v = 0
  \/ x.t = "number" /\ x.v = 0

\* The payload check of createPayment: true when it answers 400.
InvalidPayload(body) ==
  \/ Falsy(body.correlationId)
  \/ body.correlationId.t # "string"
  \/ body.amount.t # "number"

\* A ledger lookup that takes an error for a duplicate.
RejectOnError(o, cid) == o = "err" \/ HasRow(cid)

\* isPaymentAlreadyProcessed: EXISTS payment:<id> answered exists (0 or 1), or
\* the command threw (o = "err"); the catch answers false.
isPaymentAlreadyProcessed(o, exists) == IF o = "err" THEN FALSE ELSE exists = 1

\* isPaymentInDatabase: checkPaymentExists(id) answered the rows of the id, or
\* the query threw; the catch answers false.
isPaymentInDatabase(o, cid) ==
  IF o = "err" THEN FALSE
  ELSE Cardinality({k \in DOMAIN ledger : ledger[k].correlation_id = cid}) > 0

\* Whether the id has a processed-marker or a ledger row.
KnownDuplicate(cid) == cid \in processed \/ HasRow(cid)

\* processPaymentAsync up to its first await, with snapshot h.
BeginAsync(r, h) ==
  IF TryOrder(h) = <<>>
  THEN [r EXCEPT !.pc = "rq_setnx", !.at = now, !.status = 202]
  ELSE [r EXCEPT !.pc = "post", !.try = TryOrder(h), !.status = 202]

\* createPayment: an invalid payload is answered 400; otherwise addToQueue
\* builds the item and sends SET NX (the duplicate checks are commented out).
\* Ids are interchangeable: they are numbered in the order of their first use.
Post(i) ==
  /\ req[i].pc = "new"
  /\ \A j \in Reqs : j < i => req[j].pc # "new"
  /\ \E body \in Bodies :
       LET cid == body.correlationId.v
           r == [NewReq EXCEPT !.idT = body.correlationId.t, !.amtT = body.amount.t]
       IN IF InvalidPayload(body)
          THEN req' = [req EXCEPT ![i] = Done(r, 400)]
          ELSE /\ \A c \in Ids : c < cid => \E j \in Reqs : req[j].cid = c
               /\ req' = [req EXCEPT ![i] =
                            [r EXCEPT !.pc = "setnx", !.cid = cid,
                                      !.amount = body.amount.v, !.at = now,
                                      !.dup = KnownDuplicate(cid)]]
  /\ posts > 0
  /\ posts' = posts - 1
  /\ UNCHANGED <<now, storeVars, wrk, sched, rebuild, faults, rebuilds,
                 horizon, stable, histVars, adminVars>>

\* SET queue_item:<id> 1 NX EX 3600
ReqSetNx(i) ==
  LET r == req[i] IN
  /\ r.pc = "setnx"
  /\ \E o \in Outcomes, h \in SeenSnapshots :
       /\ Spend(o)
       /\ IF o = "err"
          THEN /\ req' = [req EXCEPT ![i] = Done(r, 500)]
               /\ UNCHANGED <<queueItem, attempts>>
          ELSE IF ~SetNxOk(r.cid)
          THEN /\ req' = [req EXCEPT ![i] = BeginAsync(r, h)]
               /\ attempts' = Bump(attempts, r.cid)
               /\ UNCHANGED queueItem
          ELSE /\ queueItem' = queueItem \cup {r.cid}
               /\ req' = [req EXCEPT ![i].pc = "lpush"]
               /\ UNCHANGED attempts
  /\ UNCHANGED <<now, queue, retryQ, processing, processed, failed, workerLock,
                 ledger, counters, wrk, sched, rebuild, budgetVars, accepted,
                 increments, highest, pushed, adminVars>>

\* LPUSH payment_queue item; then processPaymentAsync starts and 202 is set.
ReqLPush(i) ==
  LET r == req[i] IN
  /\ r.pc = "lpush"
  /\ \E o \in Outcomes, h \in SeenSnapshots :
       /\ Spend(o)
       /\ IF o = "err"
          THEN /\ req' = [req EXCEPT ![i] = Done(r, 500)]
               /\ UNCHANGED <<queue, attempts, pushed, enqueued>>
          ELSE /\ queue' = <<QueueItem(r.cid, r.amount, 0, r.at)>> \o queue
               /\ pushed' = Bump(pushed, r.cid)
               /\ enqueued' = Append(enqueued, QueueItem(r.cid, r.amount, 0, r.at))
               /\ req' = [req EXCEPT ![i] = BeginAsync(r, h)]
               /\ attempts' = Bump(attempts, r.cid)
  /\ UNCHANGED <<now, retryQ, processing, queueItem, processed, failed,
                 workerLock, ledger, counters, wrk, sched, rebuild,
                 budgetVars, accepted, increments, highest, summ, purge,
                 crashes, healthVars, take>>

\* attemptPayment of processPaymentAsync answers.
ReqPost(i) ==
  LET r == req[i]
      p == Head(r.try) IN
  /\ r.pc = "post"
  /\ \E ok \in Answers(p) :
       /\ accepted' = IF ok THEN Bump(accepted, r.cid) ELSE accepted
       /\ req' = [req EXCEPT ![i] =
                    IF ok THEN [r EXCEPT !.pc = "insert", !.proc = p, !.try = <<>>]
                    ELSE IF Tail(r.try) = <<>>
                    THEN [r EXCEPT !.pc = "rq_setnx", !.at = now, !.try = <<>>]
                    ELSE [r EXCEPT !.try = Tail(r.try)]]
  /\ UNCHANGED <<now, storeVars, wrk, sched, rebuild, faults, budgetVars,
                 increments, attempts, highest, pushed, adminVars>>

\* createTransaction: BEGIN, INSERT, incrementCounters when a row came back.
ReqInsert(i) ==
  LET r == req[i] IN
  /\ r.pc = "insert"
  /\ r.cid \notin PendingIds
  /\ \E o \in Outcomes \cup {"incr_err"} :
       /\ o = "incr_err" => faults > 0 /\ createTransactionInserts(r.cid)
       /\ Spend(o)
       /\ IF o = "err"
          THEN /\ req' = [req EXCEPT ![i] = [r EXCEPT !.pc = "rq_setnx", !.at = now]]
               /\ UNCHANGED <<counters, increments>>
          ELSE IF ~createTransactionInserts(r.cid)
          THEN /\ req' = [req EXCEPT ![i].pc = "mark"]
               /\ UNCHANGED <<counters, increments>>
          ELSE /\ req' = [req EXCEPT ![i].pc = "commit"]
               /\ IF o = "ok"
                  THEN /\ counters' = incrementCounters(counters, r.proc, r.amount)
                       /\ increments' = Bump(increments, r.cid)
                  ELSE UNCHANGED <<counters, increments>>
  /\ UNCHANGED <<now, queue, retryQ, processing, queueItem, processed, failed,
                 workerLock, ledger, wrk, sched, rebuild, budgetVars,
                 attempts, accepted, highest, pushed, adminVars>>

\* createTransaction: COMMIT.
ReqCommit(i) ==
  LET r == req[i] IN
  /\ r.pc = "commit"
  /\ \E o \in Outcomes :
       /\ Spend(o)
       /\ IF o = "err"
          THEN /\ req' = [req EXCEPT ![i] = [r EXCEPT !.pc = "rq_setnx", !.at = now]]
               /\ UNCHANGED ledger
          ELSE /\ ledger' = Append(ledger, Row(r.cid, r.amount, r.proc))
               /\ req' = [req EXCEPT ![i].pc = "mark"]
  /\ UNCHANGED <<now, queue, retryQ, processing, queueItem, processed, failed,
                 workerLock, counters, wrk, sched, rebuild, budgetVars,
                 histVars, adminVars>>

\* markAsProcessed(correlationId, undefined): the MULTI runs with an element
\* that matches nothing, or the client rejects the undefined argument and the
\* function's catch swallows it.
ReqMark(i) ==
  LET r == req[i] IN
  /\ r.pc = "mark"
  /\ \E o \in Outcomes \cup {"reject"} :
       /\ Spend(IF o = "reject" THEN "ok" ELSE o)
       /\ IF o = "ok"
          THEN /\ processing' = LRem1(processing, NoRaw)
               /\ queueItem' = queueItem \ {r.cid}
               /\ processed' = processed \cup {r.cid}
          ELSE UNCHANGED <<processing, queueItem, processed>>
  /\ req' = [req EXCEPT ![i] = Done(r, 202)]
  /\ UNCHANGED <<now, queue, retryQ, failed, workerLock, ledger, counters, wrk,
                 sched, rebuild, budgetVars, histVars, adminVars>>

\* addToQueue of processPaymentAsync (lines 316, 327, 333; 338 after an error).
ReqRqSetNx(i) ==
  LET r == req[i] IN
  /\ r.pc = "rq_setnx"
  /\ \E o \in Outcomes :
       /\ Spend(o)
       /\ IF o = "err"
          THEN /\ req' = [req EXCEPT ![i] =
                            IF r.again THEN [r EXCEPT !.again = FALSE, !.at = now]
                            ELSE Done(r, 202)]
               /\ UNCHANGED queueItem
          ELSE IF ~SetNxOk(r.cid)
          THEN /\ req' = [req EXCEPT ![i] = Done(r, 202)]
               /\ UNCHANGED queueItem
          ELSE /\ queueItem' = queueItem \cup {r.cid}
               /\ req' = [req EXCEPT ![i].pc = "rq_lpush"]
  /\ UNCHANGED <<now, queue, retryQ, processing, processed, failed, workerLock,
                 ledger, counters, wrk, sched, rebuild, budgetVars,
                 histVars, adminVars>>

ReqRqLPush(i) ==
  LET r == req[i] IN
  /\ r.pc = "rq_lpush"
  /\ \E o \in Outcomes :
       /\ Spend(o)
       /\ IF o = "err"
          THEN /\ req' = [req EXCEPT ![i] =
                            IF r.again
                            THEN [r EXCEPT !.pc = "rq_setnx", !.again = FALSE, !.at = now]
                            ELSE Done(r, 202)]
               /\ UNCHANGED <<queue, pushed, enqueued>>
          ELSE /\ queue' = <<QueueItem(r.cid, r.amount, 0, r.at)>> \o queue
               /\ pushed' = Bump(pushed, r.cid)
               /\ enqueued' = Append(enqueued, QueueItem(r.cid, r.amount, 0, r.at))
               /\ req' = [req EXCEPT ![i] = Done(r, 202)]
  /\ UNCHANGED <<now, retryQ, processing, queueItem, processed, failed,
                 workerLock, ledger, counters, wrk, sched, rebuild,
                 budgetVars, attempts, accepted, increments, highest,
                 summ, purge, crashes, healthVars, take>>

\* ------------------------------------------------ drain loop: processQueue
\* processPayment up to its first await, with snapshot h; without a candidate
\* processor it returns false and processQueue calls addToRetryQueue.
BeginItem(w, h) ==
  IF TryOrder(h) = <<>>
  THEN [w EXCEPT !.pc = "lrem", !.try = <<>>, !.proc = "none"]
  ELSE [w EXCEPT !.pc = "post", !.try = TryOrder(h), !.proc = "none"]

\* The for loop of processQueue goes to its next item, or to the finally block.
NextItem(w, h) ==
  IF Tail(w.batch) = <<>>
  THEN [NewWrk EXCEPT !.pc = "finally"]
  ELSE BeginItem([w EXCEPT !.batch = Tail(w.batch)], h)

\* Promise.all of getFromQueue and getRetryableItems has resolved.
Gathered(w) == w.pc = "take" /\ w.mainSt = "done" /\ w.retrySt = "done"

AfterTake(w, h) ==
  IF ~Gathered(w) THEN w
  ELSE IF w.mi \o w.ri = <<>> THEN [NewWrk EXCEPT !.pc = "empty_del"]
  ELSE BeginItem([NewWrk EXCEPT !.batch = w.mi \o w.ri], h)

\* Whether the step from w to w2 called processPayment for the next item.
Began(w, w2) ==
  /\ w2.pc \in {"post", "lrem"}
  /\ w2.batch # <<>>
  /\ (w.pc = "take" \/ w.batch # w2.batch)

\* The delivery attempts after the step from w to w2.
Counted(w, w2) ==
  IF Began(w, w2) THEN Bump(attempts, Head(w2.batch).correlationId) ELSE attempts

Reschedule(n) == IF n < MaxSched THEN n + 1 ELSE MaxSched

\* A processQueue timer fires: tryAcquireWorkerLock (SET worker_lock NX PX).
\* Without the lock the invocation only schedules its successor.
WStart(r) ==
  /\ wrk[r].pc = "idle"
  /\ sched[r] > 0
  /\ \E o \in Outcomes :
       /\ Spend(o)
       /\ IF o = "ok" /\ ~workerLock
          THEN /\ workerLock' = TRUE
               /\ sched' = [sched EXCEPT ![r] = @ - 1]
               /\ wrk' = [wrk EXCEPT ![r] = [NewWrk EXCEPT !.pc = "take",
                            !.mainSt = "run", !.retrySt = "eval", !.t = now]]
          ELSE UNCHANGED <<workerLock, sched, wrk>>
  /\ UNCHANGED <<now, queue, retryQ, processing, queueItem, processed, failed,
                 ledger, counters, req, rebuild, budgetVars, histVars, adminVars>>

\* getFromQueue: one LMOVE payment_queue payment_processing RIGHT LEFT.  The
\* replica's connection serves its commands in the order sent: the first
\* LMOVE, the EVAL of getRetryableItems, then the commands that follow them.
WLMove(r) ==
  LET w == wrk[r] IN
  /\ w.pc = "take" /\ w.mainSt = "run"
  /\ w.mi # <<>> => w.retrySt # "eval"
  /\ \E o \in Outcomes, h \in SeenSnapshots :
       /\ Spend(o)
       /\ LET w2 == IF o = "err" THEN [w EXCEPT !.mi = <<>>, !.mainSt = "done"]
                    ELSE IF queue = <<>> THEN [w EXCEPT !.mainSt = "done"]
                    ELSE [w EXCEPT !.mi = Append(w.mi, queue[Len(queue)]),
                                   !.mainSt = IF Len(w.mi) + 1 = QueueLimit
                                              THEN "done" ELSE "run"]
          IN /\ wrk' = [wrk EXCEPT ![r] = AfterTake(w2, h)]
             /\ attempts' = Counted(w, AfterTake(w2, h))
       /\ IF o = "ok" /\ queue # <<>>
          THEN /\ queue' = SubSeq(queue, 1, Len(queue) - 1)
               /\ processing' = <<queue[Len(queue)]>> \o processing
          ELSE UNCHANGED <<queue, processing>>
  /\ UNCHANGED <<now, retryQ, queueItem, processed, failed, workerLock, ledger,
                 counters, req, sched, rebuild, budgetVars, accepted,
                 increments, highest, pushed, adminVars>>

\* getRetryableItems: EVAL of GET_AND_REMOVE_RETRY_ITEMS_SCRIPT with ARGV[1]
\* the Date.now() taken when the function was called.
WEval(r) ==
  LET w == wrk[r] IN
  /\ w.pc = "take" /\ w.retrySt = "eval"
  /\ w.mainSt = "done" \/ w.mi # <<>>
  /\ \E o \in Outcomes, h \in SeenSnapshots :
       /\ Spend(o)
       /\ LET w2 == IF o = "err" \/ DueItems(w.t) = {}
                    THEN [w EXCEPT !.retrySt = "done", !.t = 0]
                    ELSE [w EXCEPT !.ri = ByScore(DueItems(w.t)),
                                   !.retrySt = "push", !.t = 0]
          IN /\ wrk' = [wrk EXCEPT ![r] = AfterTake(w2, h)]
             /\ attempts' = Counted(w, AfterTake(w2, h))
       /\ retryQ' = IF o = "ok" THEN retryQ \ DueItems(w.t) ELSE retryQ
  /\ UNCHANGED <<now, queue, processing, queueItem, processed, failed,
                 workerLock, ledger, counters, req, sched, rebuild,
                 budgetVars, accepted, increments, highest, pushed, adminVars>>

\* getRetryableItems: LPUSH payment_processing rawItems.
WPush(r) ==
  LET w == wrk[r] IN
  /\ w.pc = "take" /\ w.retrySt = "push"
  /\ \E o \in Outcomes, h \in SeenSnapshots :
       /\ Spend(o)
       /\ LET w2 == IF o = "err" THEN [w EXCEPT !.ri = <<>>, !.retrySt = "done"]
                    ELSE [w EXCEPT !.retrySt = "done"]
          IN /\ wrk' = [wrk EXCEPT ![r] = AfterTake(w2, h)]
             /\ attempts' = Counted(w, AfterTake(w2, h))
       /\ processing' = IF o = "ok" THEN Reverse(w.ri) \o processing ELSE processing
  /\ UNCHANGED <<now, queue, retryQ, queueItem, processed, failed, workerLock,
                 ledger, counters, req, sched, rebuild, budgetVars, accepted,
                 increments, highest, pushed, adminVars>>

\* attemptPayment of processPayment answers.
WPost(r) ==
  LET w == wrk[r]
      p == Head(w.try)
      cid == Head(w.batch).correlationId IN
  /\ w.pc = "post"
  /\ \E ok \in Answers(p) :
       /\ accepted' = IF ok THEN Bump(accepted, cid) ELSE accepted
       /\ wrk' = [wrk EXCEPT ![r] =
                    IF ok THEN [w EXCEPT !.pc = "insert", !.proc = p, !.try = <<>>]
                    ELSE IF Tail(w.try) = <<>> THEN [w EXCEPT !.pc = "lrem", !.try = <<>>]
                    ELSE [w EXCEPT !.try = Tail(w.try)]]
  /\ UNCHANGED <<now, storeVars, req, sched, rebuild, faults, budgetVars,
                 increments, attempts, highest, pushed, adminVars>>

\* _finalizePayment: createTransaction (BEGIN, INSERT, incrementCounters).
WInsert(r) ==
  LET w == wrk[r]
      x == Head(w.batch) IN
  /\ w.pc = "insert"
  /\ x.correlationId \notin PendingIds
  /\ \E o \in Outcomes \cup {"incr_err"} :
       /\ o = "incr_err" => faults > 0 /\ createTransactionInserts(x.correlationId)
       /\ Spend(o)
       /\ IF o = "err"
          THEN /\ wrk' = [wrk EXCEPT ![r].pc = "lrem"]
               /\ UNCHANGED <<counters, increments>>
          ELSE IF ~createTransactionInserts(x.correlationId)
          THEN /\ wrk' = [wrk EXCEPT ![r].pc = "mark"]
               /\ UNCHANGED <<counters, increments>>
          ELSE /\ wrk' = [wrk EXCEPT ![r].pc = "commit"]
               /\ IF o = "ok"
                  THEN /\ counters' = incrementCounters(counters, w.proc, x.amount)
                       /\ increments' = Bump(increments, x.correlationId)
                  ELSE UNCHANGED <<counters, increments>>
  /\ UNCHANGED <<now, queue, retryQ, processing, queueItem, processed, failed,
                 workerLock, ledger, req, sched, rebuild, budgetVars,
                 attempts, accepted, highest, pushed, adminVars>>

\* _finalizePayment: createTransaction (COMMIT).
WCommit(r) ==
  LET w == wrk[r]
      x == Head(w.batch) IN
  /\ w.pc = "commit"
  /\ \E o \in Outcomes :
       /\ Spend(o)
       /\ IF o = "err"
          THEN /\ wrk' = [wrk EXCEPT ![r].pc = "lrem"]
               /\ UNCHANGED ledger
          ELSE /\ ledger' = Append(ledger, Row(x.correlationId, x.amount, w.proc))
               /\ wrk' = [wrk EXCEPT ![r].pc = "mark"]
  /\ UNCHANGED <<now, queue, retryQ, processing, queueItem, processed, failed,
                 workerLock, counters, req, sched, rebuild, budgetVars,
                 histVars, adminVars>>

\* _finalizePayment: markAsProcessed(correlationId, rawItem), one MULTI; its
\* catch swallows an error and processPayment returns true.
WMark(r) ==
  LET w == wrk[r]
      x == Head(w.batch) IN
  /\ w.pc = "mark"
  /\ \E o \in Outcomes, h \in SeenSnapshots :
       /\ Spend(o)
       /\ IF o = "ok"
          THEN /\ processing' = LRem1(processing, x)
               /\ queueItem' = queueItem \ {x.correlationId}
               /\ processed' = processed \cup {x.correlationId}
          ELSE UNCHANGED <<processing, queueItem, processed>>
       /\ wrk' = [wrk EXCEPT ![r] = NextItem(w, h)]
       /\ attempts' = Counted(w, NextItem(w, h))
  /\ UNCHANGED <<now, queue, retryQ, failed, workerLock, ledger, counters, req,
                 sched, rebuild, budgetVars, accepted,
                 increments, highest, pushed, adminVars>>

\* addToRetryQueue: LREM payment_processing 1 rawItem; an error anywhere in
\* addToRetryQueue is caught and logged there.
WLRem(r) ==
  LET w == wrk[r]
      x == Head(w.batch) IN
  /\ w.pc = "lrem"
  /\ \E o \in Outcomes, h \in SeenSnapshots :
       /\ Spend(o)
       /\ IF o = "err"
          THEN /\ wrk' = [wrk EXCEPT ![r] = NextItem(w, h)]
               /\ attempts' = Counted(w, NextItem(w, h))
               /\ UNCHANGED processing
          ELSE /\ processing' = LRem1(processing, x)
               /\ wrk' = [wrk EXCEPT ![r].pc = IF Exhausted(x) THEN "dl_del" ELSE "zadd"]
               /\ UNCHANGED attempts
  /\ UNCHANGED <<now, queue, retryQ, queueItem, processed, failed, workerLock,
                 ledger, counters, req, sched, rebuild, budgetVars, accepted,
                 increments, highest, pushed, adminVars>>

\* addToRetryQueue: ZADD payment_retry_queue nextRetryAt newItem.
WZAdd(r) ==
  LET w == wrk[r]
      x == Head(w.batch) IN
  /\ w.pc = "zadd"
  /\ \E o \in Outcomes, h \in SeenSnapshots :
       /\ Spend(o)
       /\ retryQ' = IF o = "ok" THEN retryQ \cup {Rescheduled(x, now)} ELSE retryQ
       /\ highest' =
            IF o = "ok" /\ x.retryCount + 1 > highest[x.correlationId]
            THEN [highest EXCEPT ![x.correlationId] = x.retryCount + 1]
            ELSE highest
       /\ wrk' = [wrk EXCEPT ![r] = NextItem(w, h)]
       /\ attempts' = Counted(w, NextItem(w, h))
  /\ UNCHANGED <<now, queue, processing, queueItem, processed, failed,
                 workerLock, ledger, counters, req, sched, rebuild,
                 budgetVars, accepted, increments, pushed, adminVars>>

\* addToRetryQueue, retries exhausted: DEL queue_item:<id>.
WDlDel(r) ==
  LET w == wrk[r]
      x == Head(w.batch) IN
  /\ w.pc = "dl_del"
  /\ \E o \in Outcomes, h \in SeenSnapshots :
       /\ Spend(o)
       /\ IF o = "err"
          THEN /\ wrk' = [wrk EXCEPT ![r] = NextItem(w, h)]
               /\ attempts' = Counted(w, NextItem(w, h))
               /\ UNCHANGED queueItem
          ELSE /\ queueItem' = queueItem \ {x.correlationId}
               /\ wrk' = [wrk EXCEPT ![r].pc = "dl_set"]
               /\ UNCHANGED attempts
  /\ UNCHANGED <<now, queue, retryQ, processing, processed, failed, workerLock,
                 ledger, counters, req, sched, rebuild, budgetVars, accepted,
                 increments, highest, pushed, adminVars>>

\* addToRetryQueue, retries exhausted: SET payment_failed:<id> 1 EX 86400.
WDlSet(r) ==
  LET w == wrk[r]
      x == Head(w.batch) IN
  /\ w.pc = "dl_set"
  /\ \E o \in Outcomes, h \in SeenSnapshots :
       /\ Spend(o)
       /\ failed' = IF o = "ok" THEN failed \cup {x.correlationId} ELSE failed
       /\ wrk' = [wrk EXCEPT ![r] = NextItem(w, h)]
       /\ attempts' = Counted(w, NextItem(w, h))
  /\ UNCHANGED <<now, queue, retryQ, processing, queueItem, processed,
                 workerLock, ledger, counters, req, sched, rebuild,
                 budgetVars, accepted, increments, highest, pushed, adminVars>>

\* Empty batch: DEL worker_lock, setTimeout(processQueue, 200), return; the
\* finally block then runs as well.  An error goes to the catch, then finally.
WEmptyDel(r) ==
  /\ wrk[r].pc = "empty_del"
  /\ \E o \in Outcomes :
       /\ Spend(o)
       /\ IF o = "ok"
          THEN /\ workerLock' = FALSE
               /\ sched' = [sched EXCEPT ![r] = Reschedule(@)]
          ELSE UNCHANGED <<workerLock, sched>>
  /\ wrk' = [wrk EXCEPT ![r].pc = "finally"]
  /\ UNCHANGED <<now, queue, retryQ, processing, queueItem, processed, failed,
                 ledger, counters, req, rebuild, budgetVars, histVars, adminVars>>

\* finally: DEL worker_lock, setTimeout(processQueue, 500).  An error of the
\* DEL leaves the finally block before the timer is set.
WFinally(r) ==
  /\ wrk[r].pc = "finally"
  /\ \E o \in Outcomes :
       /\ Spend(o)
       /\ IF o = "ok"
          THEN /\ workerLock' = FALSE
               /\ sched' = [sched EXCEPT ![r] = Reschedule(@)]
          ELSE UNCHANGED <<workerLock, sched>>
  /\ wrk' = [wrk EXCEPT ![r] = NewWrk]
  /\ UNCHANGED <<now, queue, retryQ, processing, queueItem, processed, failed,
                 ledger, counters, req, rebuild, budgetVars, histVars, adminVars>>

\* ------------------------------------- POST /rebuild-summary-cache
RebuildStart ==
  /\ rebuild.pc = "idle"
  /\ rebuilds > 0
  /\ rebuilds' = rebuilds - 1
  /\ rebuild' = [rebuild EXCEPT !.pc = "clear"]
  /\ UNCHANGED <<now, storeVars, req, wrk, sched, posts, faults, horizon,
                 stable, histVars, adminVars>>

\* clearCounters: DEL of both hashes; its own catch swallows an error.
RebuildClear ==
  /\ rebuild.pc = "clear"
  /\ \E o \in Outcomes :
       /\ Spend(o)
       /\ counters' = IF o = "ok" THEN [p \in Procs |-> ZeroCounter] ELSE counters
  /\ rebuild' = [rebuild EXCEPT !.pc = "select"]
  /\ UNCHANGED <<now, queue, retryQ, processing, queueItem, processed, failed,
                 workerLock, ledger, req, wrk, sched, budgetVars, histVars, adminVars>>

\* SELECT processor, COUNT(*), SUM(amount) FROM transactions GROUP BY processor
RebuildSelect ==
  /\ rebuild.pc = "select"
  /\ \E o \in Outcomes :
       /\ Spend(o)
       /\ rebuild' = IF o = "ok"
                     THEN [pc |-> "hset",
                           rows |-> {p \in Procs : RowsOf(p) # {}},
                           agg |-> [p \in Procs |-> Aggregate(p)]]
                     ELSE NewRebuild
  /\ UNCHANGED <<now, storeVars, req, wrk, sched, budgetVars, histVars, adminVars>>

\* MULTI { HSET summary:processor:<p> ... } for every row of the result.
RebuildHSet ==
  /\ rebuild.pc = "hset"
  /\ \E o \in Outcomes :
       /\ Spend(o)
       /\ counters' = IF o = "ok"
                      THEN [p \in Procs |-> IF p \in rebuild.rows
                                            THEN rebuild.agg[p] ELSE counters[p]]
                      ELSE counters
  /\ rebuild' = NewRebuild
  /\ UNCHANGED <<now, queue, retryQ, processing, queueItem, processed, failed,
                 workerLock, ledger, req, wrk, sched, budgetVars, histVars, adminVars>>

\* ------------------------------------------------ GET /payments-summary
Filters == {"none", "2025-07-01T00:00:00.000Z"}

\* getPaymentsSummary: the race of getSummary(from, to) with the 50 ms timer
\* starts; getSummary sends one HGETALL per processor.
SummStart ==
  /\ summ.pc \in {"idle", "done"}
  /\ summ.left > 0
  /\ \E from \in Filters, to \in Filters :
       summ' = [NewSumm EXCEPT !.pc = "get", !.left = summ.left - 1]
  /\ UNCHANGED <<now, storeVars, req, wrk, sched, rebuild, faults, budgetVars,
                 histVars, purge, crashes,
                 healthVars,
                 batchVars>>

\* The next HGETALL answers; after the last one the rows go to the controller.
\* An error makes getSummary of the repository return its zero rows.
SummGet ==
  LET p == ProcOrder[Len(summ.got) + 1] IN
  /\ summ.pc = "get"
  /\ \E o \in Outcomes, data \in HGetAllReplies(p) :
       /\ Spend(o)
       /\ summ' =
            IF o = "err"
            THEN [summ EXCEPT !.pc = "done", !.how = "error",
                              !.resp = [q \in Procs |-> ZeroCounter]]
            ELSE LET got == Append(summ.got, data)
                     seen == Append(summ.seen, counters[p])
                 IN IF Len(got) < Len(ProcOrder)
                    THEN [summ EXCEPT !.got = got, !.seen = seen]
                    ELSE [summ EXCEPT
                            !.pc = "done", !.how = "read", !.got = got,
                            !.seen = seen,
                            !.resp = [q \in Procs |->
                                        SummaryRow(got[CHOOSE k \in 1..Len(ProcOrder) :
                                                         ProcOrder[k] = q])]]
  /\ UNCHANGED <<now, storeVars, req, wrk, sched, rebuild, budgetVars,
                 histVars, purge, crashes,
                 healthVars,
                 batchVars>>

\* The 50 ms timer wins the race: the catch returns zeros.
SummTimeout ==
  /\ summ.pc = "get"
  /\ summ' = [summ EXCEPT !.pc = "done", !.how = "timeout",
                          !.resp = [q \in Procs |-> ZeroCounter]]
  /\ UNCHANGED <<now, storeVars, req, wrk, sched, rebuild, faults, budgetVars,
                 histVars, purge, crashes,
                 healthVars,
                 batchVars>>

Summary == SummStart \/ SummGet \/ SummTimeout

\* ------------------------------------------------ POST /purge-payments
\* The handler after one of its promises settled: the first Promise.all
\* rejects on its first failure, and the catch starts the second one; it
\* resolves when its three promises have; the second one likewise, and its
\* failure is thrown to the caller.
Settle(g) ==
  IF g.pc = "first"
  THEN IF "failed" \in {g.t1, g.p1, g.f1}
       THEN [g EXCEPT !.pc = "second", !.t2 = "delete", !.p2 = "run"]
       ELSE IF {g.t1, g.p1, g.f1} = {"ok"}
       THEN [g EXCEPT !.pc = "done", !.status = 200]
       ELSE g
  ELSE IF g.pc = "second"
  THEN IF "failed" \in {g.t2, g.p2}
       THEN [g EXCEPT !.pc = "done", !.status = 500]
       ELSE IF {g.t2, g.p2} = {"ok"}
       THEN [g EXCEPT !.pc = "done", !.status = 200]
       ELSE g
  ELSE g

\* A promise of the purge is still pending.
PurgeRunning ==
  \/ {purge.t1, purge.t2} \cap {"delete", "clear"} # {}
  \/ "run" \in {purge.p1, purge.f1, purge.p2}

PurgeStart ==
  /\ purge.pc \in {"idle", "done"}
  /\ purge.left > 0
  /\ ~PurgeRunning
  /\ purge' = [NewPurge EXCEPT !.pc = "first", !.left = purge.left - 1,
                               !.t1 = "delete", !.p1 = "run", !.f1 = "run"]
  /\ UNCHANGED <<now, storeVars, req, wrk, sched, rebuild, faults, budgetVars,
                 histVars, summ, crashes,
                 healthVars,
                 batchVars>>

\* purgeTransactions: DELETE FROM transactions.
PurgeDelete ==
  \E o \in Outcomes :
    /\ Spend(o)
    /\ \/ /\ purge.t1 = "delete"
          /\ purge' = Settle([purge EXCEPT !.t1 = IF o = "ok" THEN "clear" ELSE "failed"])
       \/ /\ purge.t2 = "delete"
          /\ purge' = Settle([purge EXCEPT !.t2 = IF o = "ok" THEN "clear" ELSE "failed"])
    /\ ledger' = IF o = "ok" THEN <<>> ELSE ledger
    /\ UNCHANGED <<now, queue, retryQ, processing, queueItem, processed, failed,
                   workerLock, counters, req, wrk, sched, rebuild, budgetVars,
                   histVars, summ, crashes,
                 healthVars,
                 batchVars>>

\* purgeTransactions: clearCounters, whose catch swallows an error.
PurgeClear ==
  \E o \in Outcomes :
    /\ Spend(o)
    /\ \/ /\ purge.t1 = "clear"
          /\ purge' = Settle([purge EXCEPT !.t1 = "ok"])
       \/ /\ purge.t2 = "clear"
          /\ purge' = Settle([purge EXCEPT !.t2 = "ok"])
    /\ counters' = IF o = "ok" THEN [p \in Procs |-> ZeroCounter] ELSE counters
    /\ UNCHANGED <<now, queue, retryQ, processing, queueItem, processed, failed,
                   workerLock, ledger, req, wrk, sched, rebuild, budgetVars,
                   histVars, summ, crashes,
                 healthVars,
                 batchVars>>

\* purgePendingPayments: DELETE FROM pending_payments, a table no other
\* operation of the model uses.
PurgePending ==
  \E o \in Outcomes :
    /\ Spend(o)
    /\ \/ /\ purge.p1 = "run"
          /\ purge' = Settle([purge EXCEPT !.p1 = IF o = "ok" THEN "ok" ELSE "failed"])
       \/ /\ purge.p2 = "run"
          /\ purge' = Settle([purge EXCEPT !.p2 = IF o = "ok" THEN "ok" ELSE "failed"])
    /\ UNCHANGED <<now, storeVars, req, wrk, sched, rebuild, budgetVars,
                   histVars, summ, crashes,
                 healthVars,
                 batchVars>>

\* redis.flushAll(): every key of C is deleted.
PurgeFlush ==
  /\ purge.f1 = "run"
  /\ \E o \in Outcomes :
       /\ Spend(o)
       /\ purge' = Settle([purge EXCEPT !.f1 = IF o = "ok" THEN "ok" ELSE "failed"])
       /\ IF o = "ok"
          THEN /\ queue' = <<>> /\ retryQ' = {} /\ processing' = <<>>
               /\ queueItem' = {} /\ processed' = {} /\ failed' = {}
               /\ workerLock' = FALSE
               /\ counters' = [p \in Procs |-> ZeroCounter]
          ELSE UNCHANGED <<queue, retryQ, processing, queueItem, processed,
                           failed, workerLock, counters>>
  /\ UNCHANGED <<now, ledger, req, wrk, sched, rebuild, budgetVars, histVars,
                 summ, crashes,
                 healthVars,
                 batchVars>>

Purge == PurgeStart \/ PurgeDelete \/ PurgeClear \/ PurgePending \/ PurgeFlush

\* ------------------------------------- getFromQueue(limit), called on its own
\* LMOVE payment_queue payment_processing RIGHT LEFT takes the element at
\* the tail of the source.
RightEnd(list) == Len(list)

RemoveAt(list, k) == SubSeq(list, 1, k - 1) \o SubSeq(list, k + 1, Len(list))

\* A replica calls getFromQueue(limit).
GStart(r) ==
  /\ take[r].pc = "idle"
  /\ \E limit \in 1..MaxLimit :
       take' = [take EXCEPT ![r] = [NewTake EXCEPT !.pc = "run", !.limit = limit]]
  /\ UNCHANGED <<now, storeVars, req, wrk, sched, rebuild, faults, budgetVars,
                 histVars, summ, purge, crashes, healthVars, enqueued>>

\* One LMOVE of the loop answers: an item (raw items are always valid JSON,
\* so JSON.parse does not throw), nothing (the loop breaks), or an error (the
\* catch returns []).  After the limit-th item the loop ends.
GMove(r) ==
  LET g == take[r] IN
  /\ g.pc = "run"
  /\ \E o \in Outcomes :
       /\ Spend(o)
       /\ IF o = "err"
          THEN /\ take' = [take EXCEPT ![r] = [g EXCEPT !.pc = "done", !.ret = <<>>]]
               /\ UNCHANGED <<queue, processing>>
          ELSE IF queue = <<>>
          THEN /\ take' = [take EXCEPT ![r] = [g EXCEPT !.pc = "done", !.ret = g.items]]
               /\ UNCHANGED <<queue, processing>>
          ELSE LET x == queue[RightEnd(queue)]
                   got == Append(g.items, x)
               IN /\ queue' = RemoveAt(queue, RightEnd(queue))
                  /\ processing' = <<x>> \o processing
                  /\ take' = [take EXCEPT ![r] =
                       IF Len(got) = g.limit
                       THEN [g EXCEPT !.pc = "done", !.items = got, !.ret = got]
                       ELSE [g EXCEPT !.items = got]]
  /\ UNCHANGED <<now, retryQ, queueItem, processed, failed, workerLock, ledger,
                 counters, req, wrk, sched, rebuild, budgetVars, histVars,
                 summ, purge, crashes, healthVars, enqueued>>

Batch == \E r \in Replicas : GStart(r) \/ GMove(r)

\* ------------------------------------------------ health monitor (H)
\* A key with a TTL is there until the clock has passed its expiry time.
LeaseExpiry(t) == t + LeaseTtl

VerdictExpiry(t) == t + VerdictTtl

LeaseHeld == healthLock.by # "none" /\ now <= healthLock.exp

VerdictCached == healthStatus.set /\ now <= healthStatus.exp

\* snapshot(): the local snapshot of replica r, read without I/O.
snapshot(r) == monitor[r].local

\* What the two probes of one tick can find: both processors failing (also
\* when the probes fail), or both healthy.
ProbeAnswers == {BothFailing, [p \in Procs |-> FALSE]}

\* The replica starts its ticker; the first tick comes one interval later.
\* The replicas boot within one tick interval of each other.
HStart(r) ==
  /\ monitor[r].pc = "off"
  /\ now < TickInterval
  /\ monitor' = [monitor EXCEPT ![r] =
                   [NewMonitor EXCEPT !.pc = "idle", !.next = now + TickInterval]]
  /\ UNCHANGED <<now, storeVars, req, wrk, sched, rebuild, faults, budgetVars,
                 histVars, summ, purge, crashes, healthLock, healthStatus,
                 batchVars>>

\* Step 1, a tick: read the cached verdict; if present adopt it and stop.
HTick(r) ==
  LET m == monitor[r] IN
  /\ m.pc = "idle"
  /\ now = m.next
  /\ \E o \in Outcomes :
       /\ Spend(o)
       /\ monitor' = [monitor EXCEPT ![r] =
            IF o = "err" THEN [m EXCEPT !.next = now + TickInterval]
            ELSE IF VerdictCached
            THEN [m EXCEPT !.local = healthStatus.v, !.asOf = healthStatus.at,
                           !.from = healthStatus.by, !.next = now + TickInterval]
            ELSE [m EXCEPT !.pc = "lease", !.next = now + TickInterval]]
  /\ UNCHANGED <<now, storeVars, req, wrk, sched, rebuild, budgetVars,
                 histVars, summ, purge, crashes, healthLock, healthStatus,
                 batchVars>>

\* A tick that comes while the previous one is still running does nothing.
HSkip(r) ==
  LET m == monitor[r] IN
  /\ m.pc \in {"lease", "probing", "publish"}
  /\ now = m.next
  /\ monitor' = [monitor EXCEPT ![r].next = now + TickInterval]
  /\ UNCHANGED <<now, storeVars, req, wrk, sched, rebuild, faults, budgetVars,
                 histVars, summ, purge, crashes, healthLock, healthStatus,
                 batchVars>>

\* Step 2: the lease, set if absent; if not granted, stop.  Its holder
\* issues both probes (step 3).
HLease(r) ==
  LET m == monitor[r] IN
  /\ m.pc = "lease"
  /\ \E o \in Outcomes :
       /\ Spend(o)
       /\ IF o = "err" \/ LeaseHeld
          THEN /\ monitor' = [monitor EXCEPT ![r].pc = "idle"]
               /\ UNCHANGED healthLock
          ELSE /\ healthLock' = [by |-> r, exp |-> LeaseExpiry(now)]
               /\ monitor' = [monitor EXCEPT ![r] =
                                [m EXCEPT !.pc = "probing", !.since = now]]
  /\ UNCHANGED <<now, storeVars, req, wrk, sched, rebuild, budgetVars,
                 histVars, summ, purge, crashes, healthStatus,
                 batchVars>>

\* Steps 3 and 4: both probes have answered or were aborted (an error maps to
\* failing); the local snapshot is updated.
HProbe(r) ==
  LET m == monitor[r] IN
  /\ m.pc = "probing"
  /\ \E v \in ProbeAnswers :
       monitor' = [monitor EXCEPT ![r] =
                     [m EXCEPT !.pc = "publish", !.local = v, !.asOf = now,
                               !.from = r, !.since = 0]]
  /\ UNCHANGED <<now, storeVars, req, wrk, sched, rebuild, faults, budgetVars,
                 histVars, summ, purge, crashes, healthLock, healthStatus,
                 batchVars>>

\* Step 4: the verdict is written to C with its TTL (and mirrored into L,
\* best-effort: the table is not read by any other operation).
HPublish(r) ==
  LET m == monitor[r] IN
  /\ m.pc = "publish"
  /\ \E o \in Outcomes :
       /\ Spend(o)
       /\ healthStatus' =
            IF o = "ok"
            THEN [set |-> TRUE, v |-> m.local, at |-> m.asOf,
                  exp |-> VerdictExpiry(now), by |-> r]
            ELSE healthStatus
  /\ monitor' = [monitor EXCEPT ![r].pc = "idle"]
  /\ UNCHANGED <<now, storeVars, req, wrk, sched, rebuild, budgetVars,
                 histVars, summ, purge, crashes, healthLock,
                 batchVars>>

\* The replica's ticker stops for good, whatever it was doing.
HStop(r) ==
  /\ crashes > 0
  /\ monitor[r].pc \notin {"off", "down"}
  /\ crashes' = crashes - 1
  /\ monitor' = [monitor EXCEPT ![r] = [@ EXCEPT !.pc = "down", !.since = now]]
  /\ UNCHANGED <<now, storeVars, req, wrk, sched, rebuild, faults, budgetVars,
                 histVars, summ, purge, healthLock, healthStatus,
                 batchVars>>

\* Times the clock may not pass before something happens: a tick of a running
\* ticker, the abort deadline of running probes, and the answer of C to a
\* command (it comes before the clock moves).
HealthDeadlines ==
  {monitor[r].next : r \in {q \in Replicas : monitor[q].pc \notin {"off", "down"}}}
  \cup {monitor[r].since + ProbeDeadline :
          r \in {q \in Replicas : monitor[q].pc = "probing"}}
  \cup {now : r \in {q \in Replicas : monitor[q].pc \in {"lease", "publish"}}}

\* The clock advances; C drops the keys whose expiry time it has passed.
HealthClock ==
  /\ \E t \in HealthDeadlines \cup {now + ClockStep} :
       /\ t > now
       /\ t <= horizon
       /\ \A d \in HealthDeadlines : t <= d
       /\ now' = t
       /\ healthLock' = IF healthLock.exp < t THEN NoLease ELSE healthLock
       /\ healthStatus' = IF healthStatus.exp < t THEN NoVerdict ELSE healthStatus
  /\ UNCHANGED <<storeVars, req, wrk, sched, rebuild, faults, budgetVars,
                 histVars, summ, purge, crashes, monitor,
                 batchVars>>

Health ==
  \E r \in Replicas :
    HStart(r) \/ HTick(r) \/ HSkip(r) \/ HLease(r) \/ HProbe(r) \/ HPublish(r)

\* ------------------------------------------------------------ environment
\* Time passes until the next retry item falls due.
FutureDue == {x.nextRetryAt : x \in {y \in retryQ : y.nextRetryAt > now}}

AdvanceClock ==
  /\ FutureDue # {}
  /\ now' = CHOOSE t \in FutureDue : \A u \in FutureDue : t <= u
  /\ now' <= horizon
  /\ UNCHANGED <<storeVars, req, wrk, sched, rebuild, faults, budgetVars,
                 histVars, adminVars>>

\* The time an intake attempt takes at most: one aborted POST per candidate.
IntakeDeadline == Len(ProcOrder) * AttemptTimeout

\* Time passes, and a handler finishes within its deadline: the clock does not
\* pass the deadline of a request that is still in flight.
TimelyClock ==
  /\ AdvanceClock
  /\ \A i \in Reqs :
       req[i].pc \notin {"new", "done"} => now' <= req[i].at + IntakeDeadline

\* The process of replica r stops while it serves no request: its processQueue
\* invocation and its timers are gone, what it wrote to C and L stays.
Crash(r) ==
  /\ crashes > 0
  /\ wrk[r].pc # "down"
  /\ sched[r] > 0 \/ wrk[r].pc # "idle"
  /\ \A i \in Reqs : req[i].pc \in {"new", "done"}
  /\ crashes' = crashes - 1
  /\ wrk' = [wrk EXCEPT ![r] = [NewWrk EXCEPT !.pc = "down"]]
  /\ sched' = [sched EXCEPT ![r] = 0]
  /\ UNCHANGED <<now, storeVars, req, rebuild, faults, budgetVars, histVars,
                 summ, purge, healthVars,
                 batchVars>>

\* The replica is started again: startPaymentWorker calls processQueue.
Restart(r) ==
  /\ wrk[r].pc = "down"
  /\ wrk' = [wrk EXCEPT ![r] = NewWrk]
  /\ sched' = [sched EXCEPT ![r] = 1]
  /\ UNCHANGED <<now, storeVars, req, rebuild, faults, budgetVars, histVars,
                 adminVars>>

\* worker_lock expires (PX 15000) after its holder has stopped.
LockExpire ==
  /\ workerLock
  /\ \A r \in Replicas : wrk[r].pc \in {"idle", "down"}
  /\ workerLock' = FALSE
  /\ UNCHANGED <<now, queue, retryQ, processing, queueItem, processed, failed,
                 ledger, counters, req, wrk, sched, rebuild, faults,
                 budgetVars, histVars, adminVars>>

\* From now on processor p is available: its verdict is non-failing and its
\* POST answers 2xx.
Stabilise(p) ==
  /\ stable = "none"
  /\ stable' = p
  /\ UNCHANGED <<now, storeVars, req, wrk, sched, rebuild, posts, faults,
                 rebuilds, horizon, histVars, adminVars>>

Intake ==
  \E i \in Reqs :
    \/ Post(i) \/ ReqSetNx(i) \/ ReqLPush(i) \/ ReqPost(i) \/ ReqInsert(i)
    \/ ReqCommit(i) \/ ReqMark(i) \/ ReqRqSetNx(i) \/ ReqRqLPush(i)

\* The drain loop as long as no retry item falls due.
DrainMain ==
  \E r \in Replicas :
    \/ WStart(r) \/ WLMove(r) \/ WEval(r) \/ WPost(r) \/ WInsert(r)
    \/ WCommit(r) \/ WMark(r) \/ WLRem(r) \/ WZAdd(r)
    \/ WEmptyDel(r) \/ WFinally(r)

\* The steps that follow a due retry item, and those of an exhausted one.
DrainDue == \E r \in Replicas : WPush(r)

DrainExhausted == \E r \in Replicas : WDlDel(r) \/ WDlSet(r)

Drain == DrainMain \/ DrainDue \/ DrainExhausted

Rebuild == RebuildStart \/ RebuildClear \/ RebuildSelect \/ RebuildHSet

Available == \E p \in Procs : Stabilise(p)

Next == Intake \/ Drain \/ Rebuild \/ AdvanceClock \/ Available

Spec == Init /\ [][Next]_vars

\* ---------------------------------------------------------------- scenarios
\* One payment followed through its whole retry schedule, stores healthy.
InitRetry == Start(1, 0, 0, RetryHorizon, "none", Replicas)

NextRetry == Intake \/ Drain \/ AdvanceClock

SpecRetry == InitRetry /\ [][NextRetry]_vars

\* One payment, store errors and a summary rebuild, up to the first retry.
InitFault == Start(1, MaxFaults, MaxRebuilds, Horizon, "none", Replicas)

NextFault == Intake \/ DrainMain \/ DrainDue \/ Rebuild \/ AdvanceClock

SpecFault == InitFault /\ [][NextFault]_vars

\* Concurrent and repeated POSTs, stores healthy, before any retry is due.
InitDup == Start(MaxPosts, 0, 0, 0, "none", Replicas)

NextDup == Intake \/ DrainMain

SpecDup == InitDup /\ [][NextDup]_vars

\* Runs in which the default processor is healthy throughout.
InitHealthy == Start(MaxPosts, MaxFaults, 0, Horizon, "default", Replicas)

NextHealthy == Intake \/ DrainMain \/ DrainDue \/ AdvanceClock

SpecHealthy == InitHealthy /\ [][NextHealthy]_vars

\* Concurrent and repeated POSTs with a store error, one drain loop started.
InitLoss == Start(MaxPosts, MaxFaults, 0, 0, "none", {"api1"})

NextLoss == Intake \/ DrainMain

SpecLoss == InitLoss /\ [][NextLoss]_vars

\* One payment, stores healthy, one drain loop and a summary rebuild.
InitRebuild == Boot(1, 0, MaxRebuilds, 0, "none", {"api1"}, 0, 0, 0)

NextRebuild == Intake \/ DrainMain \/ Rebuild

SpecRebuild == InitRebuild /\ [][NextRebuild]_vars

\* One payment, a store error, one drain loop and a purge.
InitPurge == Boot(1, MaxFaults, 0, 0, "none", {"api1"}, 0, 0, MaxPurges)

\* The purge is called between payments: no handler and no drain loop runs
\* while it does, and it starts when none is running.
QuietIntake == ~PurgeRunning /\ Intake

QuietDrain == ~PurgeRunning /\ DrainMain

QuietStart ==
  /\ \A i \in Reqs : req[i].pc \in {"new", "done"}
  /\ \A r \in Replicas : wrk[r].pc = "idle"
  /\ PurgeStart

QuietPurge ==
  QuietStart \/ PurgeDelete \/ PurgeClear \/ PurgePending \/ PurgeFlush

NextPurge == QuietIntake \/ QuietDrain \/ QuietPurge

SpecPurge == InitPurge /\ [][NextPurge]_vars

\* One payment and healthy stores; the drain loop of the one replica runs
\* once every request has arrived and its handler has returned.
InitSettled == Start(1, 0, 0, Horizon, "none", {"api1"})

SettledDrain ==
  /\ posts = 0
  /\ \A i \in Reqs : req[i].pc \in {"new", "done"}
  /\ (DrainMain \/ DrainDue)

\* After a refused delivery the queue_item marker is still there, so the
\* handler's own addToQueue stops at its SET NX.
SettledIntake ==
  \E i \in Reqs :
    \/ Post(i) \/ ReqSetNx(i) \/ ReqLPush(i) \/ ReqPost(i) \/ ReqInsert(i)
    \/ ReqCommit(i) \/ ReqMark(i) \/ ReqRqSetNx(i)

NextSettled == SettledIntake \/ SettledDrain \/ AdvanceClock

SpecSettled == InitSettled /\ [][NextSettled]_vars

\* Two payments, a store error, and a getFromQueue call of each replica at
\* any moment (no drain loop runs).
InitBatch == Start(MaxPosts, MaxFaults, 0, 0, "none", {})

NextBatch == Intake \/ Batch

SpecBatch == InitBatch /\ [][NextBatch]_vars

\* The health tickers of both replicas, a store error and a ticker that stops.
InitHealth == Boot(0, MaxFaults, 0, HealthHorizon, "none", {}, MaxCrashes, 0, 0)

HealthStop == \E r \in Replicas : HStop(r)

NextHealth == Health \/ HealthStop \/ HealthClock

SpecHealth == InitHealth /\ [][NextHealth]_vars

\* One payment, a store error, one drain loop and a summary read.
InitSummary == Boot(1, MaxFaults, 0, 0, "none", {"api1"}, 0, MaxReads, 0)

NextSummary == Intake \/ DrainMain \/ Summary

SpecSummary == InitSummary /\ [][NextSummary]_vars

\* One payment, stores healthy, one replica started, and a processor that may
\* become available for good.  Every pending await completes and time
\* passes: each handler, each drain loop and the clock take the step they have.
InitLive == Start(1, 0, 0, RetryHorizon, "none", {"api1"})

NextLive == Intake \/ Drain \/ AdvanceClock \/ Available

ReqStep(i) ==
  \/ ReqSetNx(i) \/ ReqLPush(i) \/ ReqPost(i) \/ ReqInsert(i) \/ ReqCommit(i)
  \/ ReqMark(i) \/ ReqRqSetNx(i) \/ ReqRqLPush(i)

WrkStep(r) ==
  \/ WStart(r) \/ WLMove(r) \/ WEval(r) \/ WPush(r) \/ WPost(r) \/ WInsert(r)
  \/ WCommit(r) \/ WMark(r) \/ WLRem(r) \/ WZAdd(r) \/ WDlDel(r) \/ WDlSet(r)
  \/ WEmptyDel(r) \/ WFinally(r)

Fairness ==
  /\ \A i \in Reqs : WF_vars(ReqStep(i))
  /\ \A r \in Replicas : WF_vars(WrkStep(r))
  /\ WF_vars(AdvanceClock)

SpecLive == InitLive /\ [][NextLive]_vars /\ Fairness

\* One payment, stores healthy, one replica started, handlers that finish
\* within their deadline, under the same fairness.
NextExhaust == Intake \/ Drain \/ TimelyClock

FairExhaust ==
  /\ \A i \in Reqs : WF_vars(ReqStep(i))
  /\ \A r \in Replicas : WF_vars(WrkStep(r))
  /\ WF_vars(TimelyClock)

SpecExhaust == InitLive /\ [][NextExhaust]_vars /\ FairExhaust

\* The same with a crash of the replica, its restart and the expiry of the
\* lock it held.
InitCrash == Boot(1, 0, 0, RetryHorizon, "none", {"api1"}, MaxCrashes, 0, 0)

Recovery == \E r \in Replicas : Crash(r) \/ Restart(r) \/ LockExpire

NextCrash == Intake \/ Drain \/ TimelyClock \/ Available \/ Recovery

FairCrash ==
  /\ FairExhaust
  /\ \A r \in Replicas : WF_vars(Restart(r))
  /\ WF_vars(LockExpire)

SpecCrash == InitCrash /\ [][NextCrash]_vars /\ FairCrash

\* ------------------------------------------------------------------ claims
\* Tasks that hold a 2xx answer for id c and have not finished createTransaction.
Finalizing(c) ==
  \/ \E i \in Reqs : req[i].cid = c /\ req[i].pc \in {"insert", "commit"}
  \/ \E r \in Replicas :
       /\ wrk[r].pc \in {"insert", "commit"}
       /\ Head(wrk[r].batch).correlationId = c

RowCount(c) == Cardinality({k \in DOMAIN ledger : ledger[k].correlation_id = c})

\* C1: the ledger holds at most one transaction row per correlationId, whatever
\* the interleaving of POSTs (also concurrent ones of one id) and drain ticks.
C1_OneRowPerId == \A c \in Ids : RowCount(c) <= 1

\* Two accepted deliveries of one id have both run createTransaction.
C1_Witness ==
  \E c \in Ids : accepted[c] >= 2 /\ ~Finalizing(c) /\ RowCount(c) = 1

\* C2: for every correlationId at most one processor POST is accepted (2xx) in
\* total, counting the intake attempt and every drain attempt on both replicas.
C2_AtMostOneAccepted == \A c \in Ids : accepted[c] <= 1

\* Ids for which createTransaction has inserted a row, committed or pending.
Inserted == {c \in Ids : RowCount(c) > 0 \/ c \in PendingIds}

TotalRequests == counters["default"].total_requests + counters["fallback"].total_requests

TotalAmount == counters["default"].total_amount + counters["fallback"].total_amount

\* C3: counters are incremented only when createTransaction inserted a new row
\* for the id, and at most once per id: an insert that hits ON CONFLICT leaves
\* them unchanged, so they grow by one request and one amount per id.
C3_IncrementOnlyOnInsert ==
  /\ \A c \in Ids : increments[c] <= IF c \in Inserted THEN 1 ELSE 0
  /\ TotalRequests <= Cardinality(Inserted)
  /\ \A a \in Amounts : Amounts = {a} => TotalAmount <= a * Cardinality(Inserted)

Quiescent ==
  /\ \A i \in Reqs : req[i].pc \in {"new", "done"}
  /\ \A r \in Replicas : wrk[r].pc = "idle"
  /\ rebuild.pc = "idle"
  /\ queue = <<>> /\ retryQ = {} /\ processing = <<>>

\* C5: at quiescence the counters of each processor equal the ledger
\* aggregates (number of its rows, sum of their amounts).
C5_ConsistentAtQuiescence ==
  Quiescent => \A p \in Procs : counters[p] = Aggregate(p)

\* C6: in every reachable state in which no rebuild is running the counters of
\* each processor equal the ledger aggregates.
C6_ConsistentWheneverFresh ==
  rebuild.pc = "idle" =>
    \A p \in Procs :
      /\ counters[p].total_requests = Cardinality(RowsOf(p))
      /\ counters[p].total_amount = SumAmounts(RowsOf(p))

\* C7: over the lifetime of a correlationId no more than 11 delivery attempts
\* are made for it, counting the intake attempt and every drain attempt.
C7_AtMostElevenAttempts == \A c \in Ids : attempts[c] <= 11

\* The items of the main queue, the retry queue and the processing list.
Queued ==
  {queue[k] : k \in DOMAIN queue} \cup retryQ
    \cup {processing[k] : k \in DOMAIN processing}

\* C8: the retryCount carried by the queue item of a correlationId never
\* decreases, and no item with retryCount above 10 is in the retry queue.
C8_RetryCountMonotone ==
  /\ \A x \in Queued : x.retryCount >= highest[x.correlationId]
  /\ \A x \in retryQ : x.retryCount <= 10

\* The delay the schedule gives after the r-th failure, in milliseconds.
C9_Delay(r) == Min2(300, 2^(r - 1) * 5) * 1000

\* Items a worker got from the retry queue and has not finished.
HeldRetryItems(r) ==
  {wrk[r].ri[k] : k \in DOMAIN wrk[r].ri}
    \cup {x \in {wrk[r].batch[k] : k \in DOMAIN wrk[r].batch} : x.retryCount >= 1}

C10_NoFallbackRow ==
  stable = "default" => \A k \in DOMAIN ledger : ledger[k].processor # "fallback"

\* Both payments are in the ledger, delivered while default was healthy.
C10_Witness ==
  /\ stable = "default"
  /\ \A c \in Ids : RowCount(c) = 1
  /\ \A k \in DOMAIN ledger : ledger[k].processor = "default"

\* C11: a POST /payments whose correlationId already had a processed-marker or
\* a ledger row when it arrived is not processed further: it sets no queue_item
\* marker, pushes no queue item and issues no processor POST.
C11_DuplicateRejected ==
  \A i \in Reqs :
    req[i].dup =>
      req[i].pc \notin {"lpush", "rq_lpush", "post", "insert", "commit", "mark"}

\* The number of items of id c in the main queue, the retry queue and the
\* processing list.
InMain(c) == Cardinality({k \in DOMAIN queue : queue[k].correlationId = c})

InRetry(c) == Cardinality({x \in retryQ : x.correlationId = c})

InProcessing(c) ==
  Cardinality({k \in DOMAIN processing : processing[k].correlationId = c})

\* Committed (a ledger row exists) or DeadLettered (payment_failed is set).
Terminal(c) == HasRow(c) \/ c \in failed

\* C12: once a payment is Committed or DeadLettered, no step puts an item for
\* its correlationId into the main queue, the retry queue or the processing
\* list.
C12_TerminalIsFinal ==
  [][\A c \in Ids :
       Terminal(c) =>
         /\ InMain(c)' <= InMain(c)
         /\ InRetry(c)' <= InRetry(c)
         /\ InProcessing(c)' <= InProcessing(c)]_vars

\* Calls of addToQueue for id c made by createPayment that have not returned.
EnqueueInFlight(c) ==
  \E i \in Reqs : req[i].cid = c /\ req[i].pc \in {"setnx", "lpush"}

EnqueueReturned(c) == \E i \in Reqs : req[i].cid = c /\ req[i].status = 202

EnqueueThrew(c) == \E i \in Reqs : req[i].cid = c /\ req[i].status = 500

IllFormed(r) == r.idT # "string" \/ r.amtT # "number"

C15_EnqueueFailClosed ==
  /\ [][\A i \in Reqs :
          /\ req[i].pc \in {"setnx", "lpush"} /\ req'[i] # req[i]
             /\ faults' < faults => req'[i].status = 500
          /\ req'[i].status = 500 /\ req[i].status # 500 =>
               /\ req[i].pc \in {"setnx", "lpush"}
               /\ req'[i].pc = "done"
               /\ UNCHANGED <<ledger, attempts, accepted>>]_vars
  /\ [](\A i \in Reqs :
          /\ req[i].status = 202 /\ req[i].pc = "done"
          /\ ~EnqueueInFlight(req[i].cid)
          => pushed[req[i].cid] >= 1 \/ HasRow(req[i].cid))

\* The dead-lettered state of id c.
DeadLettered(c) ==
  /\ c \in failed
  /\ ~HasRow(c)
  /\ c \notin queueItem
  /\ InMain(c) = 0 /\ InRetry(c) = 0 /\ InProcessing(c) = 0

\* C16: a payment that was accepted for processing and all of whose delivery
\* attempts fail eventually is dead-lettered: payment_failed:<id> exists, no
\* ledger row, no queue_item marker, and no item of the id in the main queue,
\* the retry queue or the processing list.
C16_ExhaustedIsDeadLettered ==
  \A i \in Reqs, c \in Ids :
    (req[i].status = 202 /\ req[i].cid = c) ~>
      (DeadLettered(c) \/ accepted[c] > 0)

\* The payment is dead-lettered after its twelve attempts all failed.
C16_Witness ==
  \E c \in Ids : DeadLettered(c) /\ accepted[c] = 0 /\ attempts[c] = 12

\* C17: an item that is in payment_processing, also one whose replica crashed
\* after taking it, is not lost: once a processor is available its payment
\* eventually has a ledger row (or, its retries exhausted before that, the
\* payment_failed marker).
C17_OrphansRecovered ==
  \A c \in Ids :
    (InProcessing(c) > 0 /\ stable # "none") ~> (HasRow(c) \/ c \in failed)

\* The counters the summary read saw for processor q.
C18_Seen(q) == summ.seen[CHOOSE k \in 1..Len(ProcOrder) : ProcOrder[k] = q]

\* C18: the summary read returns, for each processor, the counters C held
\* when it read them (zero for a processor without a hash), also with date
\* filters; when the read fails or the 50 ms deadline passes it returns zero
\* requests and zero amount for both; and no step of it changes C or L.
C18_SummaryFromCounters ==
  /\ [](summ.pc = "done" =>
          \A q \in Procs :
            summ.resp[q] = IF summ.how = "read" THEN C18_Seen(q) ELSE ZeroCounter)
  /\ [][summ' # summ => UNCHANGED <<storeVars, req, wrk, histVars>>]_vars

\* A read returned the non-zero counters of default.
C18_Witness ==
  /\ summ.pc = "done" /\ summ.how = "read"
  /\ summ.resp["default"].total_amount = 25
  /\ summ.resp["fallback"] = ZeroCounter

\* C19: when rebuildFromDatabase completes, the counters of each processor
\* equal the aggregates of the ledger (number of its rows, sum of their
\* amounts), also when a createTransaction ran concurrently with it and has
\* committed by then: no increment is lost or counted twice.
C19_RebuildExact ==
  [][rebuild.pc = "hset" /\ rebuild'.pc = "idle" /\ PendingIds = {} =>
       \A p \in Procs :
         counters'[p] = [total_requests |-> Cardinality(RowsOf(p)'),
                         total_amount |-> SumAmounts(RowsOf(p))']]_vars

\* No handler, drain loop or purge promise is in flight.
NothingRunning ==
  /\ \A i \in Reqs : req[i].pc \in {"new", "done"}
  /\ \A r \in Replicas : wrk[r].pc \in {"idle", "down"}
  /\ ~PurgeRunning

\* The three collections, every marker, the counters and the ledger are empty.
Purged ==
  /\ queue = <<>> /\ retryQ = {} /\ processing = <<>>
  /\ queueItem = {} /\ processed = {} /\ failed = {}
  /\ counters = [p \in Procs |-> ZeroCounter]
  /\ ledger = <<>>

\* C20: when POST /purge-payments reports success (and nothing else is in
\* flight), the main queue, the retry queue, the processing list, every
\* marker, the counters and the ledger are empty, also when a command of the
\* purge failed.
C20_PurgeClearsAll ==
  [][purge.status # 200 /\ purge'.status = 200 /\ NothingRunning' => Purged']_vars

Probing(r) == monitor[r].pc = "probing"

StaleFrom(q, r) ==
  /\ monitor[r].pc = "down"
  /\ monitor[q].pc \notin {"off", "down"}
  /\ monitor[q].from = r

Adopts(q) ==
  /\ monitor[q].pc = "idle" /\ monitor'[q].pc = "idle"
  /\ monitor'[q].next # monitor[q].next
  /\ healthStatus.set
  /\ monitor'[q].asOf = healthStatus.at /\ monitor'[q].from = healthStatus.by

InFlight(c) ==
  Cardinality({i \in Reqs : req[i].pc = "post" /\ req[i].cid = c})
  + Cardinality({r \in Replicas :
                   wrk[r].pc = "post" /\ Head(wrk[r].batch).correlationId = c})

\* C23: at no time are two delivery attempts for one correlationId in flight
\* together, from the intake path, the drain loops, or both.
C23_SerialPerId == \A c \in Ids : InFlight(c) <= 1

\* The intake delivery of request i has not failed on every candidate: it is
\* awaiting a processor, or a processor accepted it.
IntakeNotFailed(i) == req[i].pc \in {"post", "insert", "commit", "mark"}

\* C24: the intake path puts a payment on the main queue only after every
\* candidate processor failed or was skipped; until then, and when a
\* processor accepts it, the payment was never on the main queue.
C24_EnqueueOnlyOnFailure ==
  \A i \in Reqs : IntakeNotFailed(i) => pushed[req[i].cid] = 0

\* The raw item x is a member of payment_processing.
Held(x) == \E k \in DOMAIN processing : processing[k] = x

\* C25: takeDue is atomic: an item getRetryableItems has read as due is at
\* every moment in the retry queue or in the processing list.
C25_TakeDueAtomic ==
  \A r \in Replicas :
    wrk[r].pc = "take" =>
      \A k \in DOMAIN wrk[r].ri : wrk[r].ri[k] \in retryQ \/ Held(wrk[r].ri[k])

\* The number of items LMOVE has taken from payment_queue.
Moved == Len(enqueued) - Len(queue)

\* The items taken so far: the oldest ones, in the order of their LPUSH.
Oldest == SubSeq(enqueued, 1, Moved)

Count(list, x) == Cardinality({k \in DOMAIN list : list[k] = x})

\* s keeps the order of t: it is t without some of its elements.
RECURSIVE IsSubSeq(_, _)
IsSubSeq(s1, t) ==
  IF s1 = <<>> THEN TRUE
  ELSE IF t = <<>> THEN FALSE
  ELSE IF Head(s1) = Head(t) THEN IsSubSeq(Tail(s1), Tail(t))
  ELSE IsSubSeq(s1, Tail(t))

\* The getFromQueue call of replica r met a C error.
TakeFailed(r) == take[r].pc = "done" /\ take[r].ret # take[r].items

Range(list) == {list[k] : k \in DOMAIN list}

\* The raw items an invocation of processQueue has taken and not yet handled.
Hands(w) == Range(w.mi) \cup Range(w.ri) \cup Range(w.batch)

\* C27: when a command of getFromQueue or getRetryableItems fails, the call
\* returns an empty batch and no work is lost: the items it drops are still
\* in the main or in the retry queue, where a later drain tick takes them.
C27_FailedTakeLosesNothing ==
  [][\A r \in Replicas :
       wrk[r].pc = "take" /\ faults' < faults =>
         \A x \in Hands(wrk[r]) \ Hands(wrk'[r]) :
           x \in Range(queue') \/ x \in retryQ']_vars

\* The drain loop of replica r is in addToRetryQueue for an item a processor
\* accepted: its ledger write failed.
ReschedulingAccepted(r) ==
  wrk[r].pc \in {"lrem", "zadd"} /\ wrk[r].proc # "none"

Marks(r) == wrk[r].pc = "mark" /\ wrk'[r] # wrk[r]

\* C29: markAsProcessed with the raw item of the drain loop either removes
\* exactly one occurrence of that raw item from payment_processing (every
\* other element and their order stay), deletes queue_item:<id> and sets
\* payment_processed:<id>, or meets an error and changes none of the three; in
\* both cases payment_queue, payment_retry_queue and the ledger, which already
\* holds the payment's row, are left as they were.
C29_FinalizeFrame ==
  [][\A r \in Replicas :
       Marks(r) =>
         LET x == Head(wrk[r].batch)
             c == x.correlationId IN
         /\ queue' = queue /\ retryQ' = retryQ /\ failed' = failed
         /\ ledger' = ledger /\ HasRow(c)
         /\ \/ /\ Count(processing, x) >= 1
               /\ Count(processing', x) = Count(processing, x) - 1
               /\ Len(processing') = Len(processing) - 1
               /\ IsSubSeq(processing', processing)
               /\ queueItem' = queueItem \ {c}
               /\ processed' = processed \cup {c}
            \/ /\ faults' < faults
               /\ processing' = processing
               /\ queueItem' = queueItem
               /\ processed' = processed]_vars

\* The drain loop has finalized a payment whose intake delivery is still
\* waiting: the row is in the ledger, the payment is marked processed, its
\* queue_item marker is gone and payment_processing no longer holds it.
C29_Witness ==
  \E i \in Reqs, r \in Replicas :
    /\ req[i].pc = "post" /\ wrk[r].pc = "finally"
    /\ HasRow(req[i].cid)
    /\ req[i].cid \in processed
    /\ req[i].cid \notin queueItem
    /\ \A k \in DOMAIN processing : processing[k].correlationId # req[i].cid

\* The step of replica r is the command of addToRetryQueue it stands at.
Reschedules(r, at) == wrk[r].pc = at /\ wrk'[r] # wrk[r]

C31_OneItemPerId ==
  \A c \in Ids : InMain(c) + InRetry(c) + InProcessing(c) <= 1

\* No queue holds an item of id c.
Absent(c) == InMain(c) + InRetry(c) + InProcessing(c) = 0

\* C32: when a processQueue invocation ends, every payment that has a ledger
\* row is in none of payment_queue, payment_retry_queue and
\* payment_processing.  The handlers have returned before the drain loop
\* starts, so a row either was there when the invocation began or is the
\* invocation's own.
C32_CommittedLeavesQueues ==
  [][\A r \in Replicas :
       wrk[r].pc = "finally" /\ wrk'[r].pc = "idle" =>
         \A c \in Ids : HasRow(c) => Absent(c)']_vars

\* The candidates of a snapshot are its non-failing processors, default first.
CandidatesNonFailing ==
  \A h \in Snapshots :
    /\ \A k \in DOMAIN TryOrder(h) : ~h[TryOrder(h)[k]]
    /\ \A p \in Procs : ~h[p] => \E k \in DOMAIN TryOrder(h) : TryOrder(h)[k] = p
    /\ IsSubSeq(TryOrder(h), <<"default", "fallback">>)

\* The step from task record t to u is a processor POST of the task: u is
\* what it does next, after is the place it goes to when no candidate is left.
PostStep(t, u, cid, after) ==
  t.pc = "post" /\ u # t =>
    IF accepted' # accepted
    THEN /\ accepted' = Bump(accepted, cid)
         /\ u.pc = "insert" /\ u.proc = Head(t.try) /\ u.try = <<>>
    ELSE IF Tail(t.try) = <<>> THEN u.pc = after /\ u.try = <<>>
    ELSE u.pc = "post" /\ u.try = Tail(t.try)

\* A task comes to POST to fallback first only from a snapshot that says
\* default is failing, or from a POST to default that was not answered 2xx.
FallbackAfterDefault(t, u) ==
  u.pc = "post" /\ u # t /\ Head(u.try) = "fallback" =>
    \/ t.pc # "post" /\ \E h \in Snapshots : h["default"] /\ u.try = TryOrder(h)
    \/ t.pc = "post" /\ Head(t.try) = "default" /\ accepted' = accepted

\* C33: a delivery attempt of the intake path or of the drain loop POSTs to
\* the non-failing processors of its snapshot only, to default before
\* fallback, to fallback only when default was skipped or did not answer 2xx,
\* and to no processor after a 2xx; the row it commits names the processor
\* that answered 2xx.
C33_TryOrder ==
  /\ [](/\ CandidatesNonFailing
        /\ \A i \in Reqs : req[i].pc = "post" =>
             req[i].try # <<>> /\ IsSubSeq(req[i].try, <<"default", "fallback">>)
        /\ \A r \in Replicas : wrk[r].pc = "post" =>
             wrk[r].try # <<>> /\ IsSubSeq(wrk[r].try, <<"default", "fallback">>))
  /\ [][/\ \A i \in Reqs :
             /\ PostStep(req[i], req'[i], req[i].cid, "rq_setnx")
             /\ FallbackAfterDefault(req[i], req'[i])
             /\ req[i].pc = "commit" /\ req'[i].pc = "mark" =>
                  ledger' = Append(ledger, Row(req[i].cid, req[i].amount, req[i].proc))
        /\ \A r \in Replicas :
             /\ wrk[r].pc = "post" =>
                  PostStep(wrk[r], wrk'[r], Head(wrk[r].batch).correlationId, "lrem")
             /\ FallbackAfterDefault(wrk[r], wrk'[r])
             /\ wrk[r].pc = "commit" /\ wrk'[r].pc = "mark" =>
                  ledger' = Append(ledger, Row(Head(wrk[r].batch).correlationId,
                                               Head(wrk[r].batch).amount, wrk[r].proc))
        /\ ledger' # ledger =>
             \E q \in Procs, c \in Ids, a \in Amounts :
               /\ ledger' = Append(ledger, Row(c, a, q))
               /\ accepted[c] >= 1]_vars

\* A payment was accepted once, by fallback, and its row says fallback.
C33_Witness ==
  \E k \in DOMAIN ledger :
    /\ ledger[k].processor = "fallback"
    /\ accepted[ledger[k].correlation_id] = 1

\* The health ticker of replica r has not started: its snapshot is the
\* initial one.
Cold(r) == monitor[r].pc = "off"

C35_RetryOnlyAfterFailure ==
  [][\A r \in Replicas :
       wrk'[r].pc = "lrem" /\ wrk[r].pc # "lrem" =>
         wrk[r].pc \in {"post", "insert", "commit"}]_vars

\* The processQueue invocation of replica r has got worker_lock and has not
\* yet reached the DEL of its finally block.
Draining(r) == wrk[r].pc \notin {"idle", "down", "finally"}

\* C36: at most one processQueue invocation, over both replicas, is between
\* getting worker_lock and releasing it.
C36_DrainMutex ==
  \A r, q \in Replicas : Draining(r) /\ Draining(q) => r = q

\* The processQueue invocations of replica r that are running or waiting for
\* their timer.
Loops(r) == sched[r] + (IF wrk[r].pc \in {"idle", "down"} THEN 0 ELSE 1)

\* C37: on each replica at most one processQueue invocation is running or
\* scheduled by a timer.
C37_OneLoopPerReplica == \A r \in Replicas : Loops(r) <= 1

\* An addToQueue for id c stands between its SET NX and its LPUSH.
Pushing(c) ==
  \E i \in Reqs : req[i].cid = c /\ req[i].pc \in {"lpush", "rq_lpush"}

\* C38: whenever queue_item:<id> exists, no addToQueue for the id is between
\* its two commands, and the payment has neither a ledger row nor a
\* payment_failed marker, an item of the id is in payment_queue,
\* payment_retry_queue or payment_processing, or in the hands of a running
\* processQueue invocation.
C38_MarkerHasItem ==
  \A c \in Ids :
    c \in queueItem /\ ~Pushing(c) /\ ~HasRow(c) /\ c \notin failed =>
      \/ ~Absent(c)
      \/ \E r \in Replicas : \E x \in Hands(wrk[r]) : x.correlationId = c

\* C39: payment_processing holds only items of drain ticks in progress:
\* when no processQueue invocation is running, every tick has removed the
\* items it took and payment_processing is empty.
C39_ProcessingInProgress ==
  (\A r \in Replicas : wrk[r].pc \in {"idle", "down"}) => processing = <<>>

=============================================================================
